---- MODULE Spec2Model ----
(***************************************************************************)
(* Price-alert monitor of the crypto agent                                 *)
(* (src/src/mastra/agents/crypto-agent/tools/price-alerts.ts, the version  *)
(* with e-mail support, lines 525-1449).                                   *)
(*                                                                         *)
(* JavaScript runs the tool handlers and the monitor's callbacks on one    *)
(* event loop: code between two awaits is atomic, and at every await any   *)
(* other handler, timer callback or continuation may run.  Each action     *)
(* below is one such atomic stretch.                                       *)
(*                                                                         *)
(* setupPriceAlert awaits its price fetch between the validation and the   *)
(* registry write; it reads and writes no shared state before the write,   *)
(* so it is one action, taken when the fetch has settled.  Alert ids       *)
(* (symbol, Date.now() and a random suffix) are taken to be unique and are *)
(* numbered in order of creation.  Fields that are written once and never  *)
(* read by the monitor (symbol, createdAt, message, title, the timestamps  *)
(* of records and notifications) are left out.                             *)
(***************************************************************************)
EXTENDS Integers, Sequences, FiniteSets, TLC

\* ---- bounds ----
\* Spec: alerts ever created, checkAlerts invocations in flight, Date.now() values
MaxAlerts == 1
MaxTicks == 2
MaxClock == 1
\* BatchSpec: several alerts in one tick, one invocation in flight
BatchAlerts == 2
BatchTicks == 1

\* ---- values ----
\* an optional number that was not supplied (JavaScript undefined)
Undefined == -1

\* if (x): a number is truthy unless it is undefined or 0
Truthy(x) == x # Undefined /\ x # 0

SetupLows == {Undefined, 145}
SetupHighs == {Undefined, 0, 150}
PriceInputs == {Undefined, 0, 143, 155}
SetupPriceInputs == {Undefined, 155}

\* what `fetch` followed by `response.json()` can deliver
FetchOutcomes ==
    {[kind |-> "throws", usd |-> Undefined], [kind |-> "notOk", usd |-> Undefined]}
    \cup {[kind |-> "json", usd |-> p] : p \in PriceInputs}

SetupFetchOutcomes ==
    {[kind |-> "throws", usd |-> Undefined], [kind |-> "notOk", usd |-> Undefined]}
    \cup {[kind |-> "json", usd |-> p] : p \in SetupPriceInputs}

\* ======== the portfolio tools ========
\* (src/src/mastra/agents/crypto-agent/tools/portfolio.ts)
\*
\* A call is a chain of awaits with no state shared between calls: the
\* holdings of the wallet are resolved, then one price is fetched per token,
\* then the holdings are valued and, for analyzePortfolioRisk, analysed, all
\* in the continuation of the last fetch.
\*
\* Numbers are integers.  An amount counts halves of a token (the mock
\* holding of 2.5 ETH is 5) and a price is the price in USD of that unit, so
\* that value = amount * price is exact; a change is in whole percent.  A
\* value the report rounds is held in the unit it is rounded to:
\* percentages and the volatility in hundredths of a percent, the value at
\* risk in cents, herfindahl_index in 1/10000, effective_assets in 1/100 and
\* diversification_ratio in 1/1000.  Math.sqrt(365) is 19.105.  The model
\* leaves out what no other computation reads: the names, the 7-day value
\* at risk, the Sharpe ratio and the maximum drawdown.

\* ---- bounds ----
\* tokens the provider lists for the wallet besides the native coin, on
\* ethereum and on the other chains
MaxTokens == 5
MaxOtherTokens == 1

\* ---- values ----
\* token_address: null
Null == ""

\* the results of a division by zero
NaN == -2
Infinity == 2000000000

\* x > y and x < y, which are false of NaN
Gt(x, y) == x # NaN /\ x > y

Lt(x, y) == x # NaN /\ x < y

Abs(x) == IF x < 0 THEN -x ELSE x

Min(a, b) == IF a <= b THEN a ELSE b

RECURSIVE SumSeq(_)
SumSeq(s) == IF s = <<>> THEN 0 ELSE Head(s) + SumSeq(Tail(s))

\* Math.round(n / d)
RoundDiv(n, d) ==
    IF d = 0 THEN (IF n = 0 THEN NaN ELSE Infinity) ELSE (2 * n + d) \div (2 * d)

\* Math.round(x * m / d), for x, m >= 0, without the product x * m
MulDivRound(x, m, d) ==
    IF d = 0 THEN (IF x = 0 \/ m = 0 THEN NaN ELSE Infinity)
    ELSE (x \div d) * m + RoundDiv((x % d) * m, d)

\* the first k decimal digits of a / b, by long division
RECURSIVE LongDivision(_, _, _, _)
LongDivision(q, r, b, k) ==
    IF k = 0 THEN [q |-> q, r |-> r]
    ELSE LongDivision(10 * q + (10 * r) \div b, (10 * r) % b, b, k - 1)

\* Math.round(a / b * 10^k)
DecimalRound(a, b, k) ==
    IF b = 0 THEN (IF a = 0 THEN NaN ELSE Infinity)
    ELSE LET d == LongDivision(a \div b, a % b, b, k)
         IN  IF 2 * d.r >= b THEN d.q + 1 ELSE d.q

\* part / whole * 100, rounded to hundredths
Percentage(part, whole) == DecimalRound(100 * part, whole, 2)

\* part / whole * 100 > pct, on the number before it is rounded
ExceedsPercent(part, whole, pct) ==
    IF whole = 0 THEN part > 0 ELSE 100 * part > pct * whole

\* String.prototype.toUpperCase on the symbols of the model
ToUpperCase(symbol) ==
    CASE symbol = "uni" -> "UNI"
      [] symbol = "dai" -> "DAI"
      [] symbol = "pepe" -> "PEPE"
      [] OTHER -> symbol

\* the inputs of the tools
Tools == {"calculatePortfolio", "analyzePortfolioRisk"}

Blockchains == {"ethereum", "solana", "polygon", "bsc", "avalanche"}

\* confidence_level in percent: one that getZScore has no entry for, and 0.99
ConfidenceLevels == {50, 99}

Contexts ==
    {[tool |-> "calculatePortfolio", blockchain |-> b, confidence_level |-> Undefined] :
        b \in Blockchains}
    \cup {[tool |-> "analyzePortfolioRisk", blockchain |-> b, confidence_level |-> c] :
            b \in Blockchains, c \in ConfidenceLevels}

\* the tokens of the wallet as the provider lists them
WalletTokens ==
    << [symbol |-> "USDC", amount |-> 2000, token_address |-> "0xA0b8"],
       [symbol |-> "AAVE", amount |-> 4, token_address |-> "0x7Fc6"],
       [symbol |-> "pepe", amount |-> 2, token_address |-> "0x6982"],
       [symbol |-> "dai", amount |-> 2, token_address |-> "0x6B17"],
       [symbol |-> "uni", amount |-> 4, token_address |-> "0x1f98"],
       [symbol |-> "LINK", amount |-> 1, token_address |-> "0x5149"] >>

ListedTokens(blockchain) ==
    LET most == IF blockchain = "ethereum" THEN MaxTokens ELSE MaxOtherTokens
    IN  {SubSeq(WalletTokens, 1, k) : k \in 0..Min(most, Len(WalletTokens))}

\* what the two fetches of a holdings function can deliver
NativeAnswers ==
    {[kind |-> "throws", balance |-> 0], [kind |-> "notOk", balance |-> 0],
     [kind |-> "json", balance |-> 0], [kind |-> "json", balance |-> 5]}

TokenAnswers(blockchain) ==
    {[kind |-> "throws", data |-> <<>>], [kind |-> "notOk", data |-> <<>>]}
    \cup {[kind |-> "json", data |-> tokens] : tokens \in ListedTokens(blockchain)}

HoldingsAnswers(blockchain) == [native : NativeAnswers, tokens : TokenAnswers(blockchain)]

\* what the fetch of one price can deliver
PriceQuotes ==
    {[usdPrice |-> Undefined, usdPrice24hrPercentChange |-> Undefined],
     [usdPrice |-> 1, usdPrice24hrPercentChange |-> Undefined],
     [usdPrice |-> 2, usdPrice24hrPercentChange |-> -25],
     [usdPrice |-> 2, usdPrice24hrPercentChange |-> 3]}

PriceOutcomes ==
    {[kind |-> k, usdPrice |-> Undefined, usdPrice24hrPercentChange |-> Undefined] :
        k \in {"throws", "notOk"}}
    \cup {[kind |-> "json", usdPrice |-> q.usdPrice,
           usdPrice24hrPercentChange |-> q.usdPrice24hrPercentChange] : q \in PriceQuotes}

VARIABLES
    heap,               \* alert objects by id (an object outlives its registry entry)
    activeAlerts,       \* the Map's keys in insertion order
    triggeredAlerts,    \* the Map's entries in insertion order
    userNotifications,  \* the array
    isRunning,
    intervalId,         \* TRUE while the monitor holds a timer's handle
    timers,             \* how many setInterval timers are scheduled
    ticks,              \* the checkAlerts invocations in flight
    now,                \* Date.now()
    feed,               \* ScenarioSpec: the prices the provider will deliver, in order
    \* a call of calculatePortfolio or analyzePortfolioRisk (portfolio.ts):
    context,            \* the tool's input
    MORALIS_API_KEY,    \* process.env.MORALIS_API_KEY is set
    stage,              \* how far the call has come
    holdings,           \* getPortfolioData's holdings
    priceData,          \* getMoralisTokenPrices' priceData
    cursor,             \* the token getMoralisTokenPrices is fetching
    calls,              \* the collaborators getPortfolioData has called
    console,            \* what was logged
    reply               \* what the call has returned or thrown

monitorVars == <<heap, activeAlerts, triggeredAlerts, userNotifications,
                 isRunning, intervalId, timers, ticks, now, feed>>

portfolioVars == <<context, MORALIS_API_KEY, stage, holdings, priceData, cursor,
                   calls, console, reply>>

vars == <<monitorVars, portfolioVars>>

data == <<heap, activeAlerts, triggeredAlerts, userNotifications>>

\* ---- helpers ----
Range(s) == {s[i] : i \in DOMAIN s}

Has(id) == id \in Range(activeAlerts)

\* Map.prototype.set on the registry: a present key keeps its place, a new one
\* goes last
MapSet(keys, id) == IF id \in Range(keys) THEN keys ELSE Append(keys, id)

\* Map.prototype.delete
MapDelete(keys, id) == SelectSeq(keys, LAMBDA k : k # id)

\* Map.prototype.set on triggeredAlerts: an entry with the same id is replaced
\* in place
RecordSet(entries, e) ==
    IF \E i \in DOMAIN entries : entries[i].id = e.id
    THEN [i \in DOMAIN entries |-> IF entries[i].id = e.id THEN e ELSE entries[i]]
    ELSE Append(entries, e)

IdleTick == [pc |-> "idle", queue |-> <<>>, price |-> Undefined,
             thresholdType |-> "low", thresholdValue |-> 0, stamp |-> 0]

NoReply == [error |-> <<>>, portfolioData |-> <<>>, report |-> <<>>]

\* no tool of portfolio.ts is called
NoToolCall ==
    /\ context = [tool |-> "none", blockchain |-> "ethereum", confidence_level |-> Undefined]
    /\ MORALIS_API_KEY = FALSE
    /\ stage = "idle"
    /\ holdings = <<>>
    /\ priceData = <<>>
    /\ cursor = 0
    /\ calls = {}
    /\ console = {}
    /\ reply = NoReply

\* the stores of price-alerts.ts when the module is loaded
MonitorInit(slots) ==
    /\ heap = <<>>
    /\ activeAlerts = <<>>
    /\ triggeredAlerts = <<>>
    /\ userNotifications = <<>>
    /\ isRunning = TRUE
    /\ intervalId = TRUE
    /\ timers = 1
    /\ ticks = [t \in 1..slots |-> IdleTick]
    /\ now = 0
    /\ feed = <<>>

InitWith(slots) == MonitorInit(slots) /\ NoToolCall

\* the module is loaded: empty stores, and the monitor was started
Init == InitWith(MaxTicks)

\* ---- the tools ----
\* setupPriceAlert.execute, its two validations
SetupRejects(low, high) ==
    \/ ~Truthy(low) /\ ~Truthy(high)
    \/ Truthy(low) /\ Truthy(high) /\ low >= high

\* the try block throws: a validation, a non-OK response or a missing price
SetupThrows(low, high, outcome) ==
    \/ SetupRejects(low, high)
    \/ outcome.kind # "json"
    \/ ~Truthy(outcome.usd)

\* what execute returns (alert_id 0 is the empty string)
SetupResult(low, high, outcome) ==
    IF SetupThrows(low, high, outcome)
    THEN [success |-> FALSE, alert_id |-> 0]
    ELSE [success |-> TRUE, alert_id |-> Len(heap) + 1]

\* a defect: an alert whose thresholds the creation price already satisfies is
\* stored as triggered
NewAlertCheckedAtCreation(low, high, email, price) ==
    [lowThreshold |-> low, highThreshold |-> high, currentPrice |-> price,
     userEmail |-> email, lastChecked |-> Undefined,
     triggered |-> (Truthy(low) /\ price <= low) \/ (Truthy(high) /\ price >= high),
     triggeredAt |-> Undefined]

\* the object setupPriceAlert stores
NewAlert(low, high, email, price) ==
    [lowThreshold |-> low, highThreshold |-> high, currentPrice |-> price,
     userEmail |-> email, lastChecked |-> Undefined,
     triggered |-> FALSE, triggeredAt |-> Undefined]

\* the alert objects and the registry as execute leaves them
SetupEffect(low, high, email, outcome) ==
    IF SetupThrows(low, high, outcome)
    THEN [heap |-> heap, activeAlerts |-> activeAlerts]
    ELSE [heap |-> Append(heap, NewAlert(low, high, email, outcome.usd)),
          activeAlerts |-> MapSet(activeAlerts, Len(heap) + 1)]

SetupPriceAlert(low, high, email, outcome) ==
    /\ heap' = SetupEffect(low, high, email, outcome).heap
    /\ activeAlerts' = SetupEffect(low, high, email, outcome).activeAlerts
    /\ UNCHANGED <<triggeredAlerts, userNotifications, isRunning, intervalId, timers,
                   ticks, now, feed>>
    /\ UNCHANGED portfolioVars

\* removePriceAlert.execute
RemoveResult(id) == [success |-> Has(id)]

RemovePriceAlert(id) ==
    /\ activeAlerts' = IF Has(id) THEN MapDelete(activeAlerts, id) ELSE activeAlerts
    /\ UNCHANGED <<heap, triggeredAlerts, userNotifications, isRunning,
                   intervalId, timers, ticks, now, feed>>
    /\ UNCHANGED portfolioVars

\* Array.prototype.find: the first notification with the id, 0 when there is none
FindNotification(notifications, nid) ==
    IF \E i \in DOMAIN notifications : notifications[i].id = nid
    THEN CHOOSE i \in DOMAIN notifications :
            /\ notifications[i].id = nid
            /\ \A j \in 1..(i - 1) : notifications[j].id # nid
    ELSE 0

\* acknowledgeAlert.execute: what it returns, and the array as it leaves it
AcknowledgeResult(notifications, nid) ==
    [success |-> FindNotification(notifications, nid) # 0]

\* a defect: the flag is toggled instead of set
AcknowledgedToggles(notifications, nid) ==
    IF FindNotification(notifications, nid) # 0
    THEN [notifications EXCEPT ![FindNotification(notifications, nid)].acknowledged =
                                  ~notifications[FindNotification(notifications, nid)].acknowledged]
    ELSE notifications

\* a defect: every notification is marked, not only the one that was found
AcknowledgedAll(notifications, nid) ==
    IF FindNotification(notifications, nid) # 0
    THEN [i \in DOMAIN notifications |-> [notifications[i] EXCEPT !.acknowledged = TRUE]]
    ELSE notifications

Acknowledged(notifications, nid) ==
    IF FindNotification(notifications, nid) # 0
    THEN [notifications EXCEPT ![FindNotification(notifications, nid)].acknowledged = TRUE]
    ELSE notifications

AcknowledgeAlert(nid) ==
    /\ userNotifications' = Acknowledged(userNotifications, nid)
    /\ UNCHANGED <<heap, activeAlerts, triggeredAlerts, isRunning, intervalId, timers,
                   ticks, now, feed>>
    /\ UNCHANGED portfolioVars

\* getAlertNotifications.execute: what it returns; it works on a copy of the
\* array and writes to nothing
GetAlertNotificationsResult(unacknowledged_only) ==
    [notifications |->
         IF unacknowledged_only
         THEN SelectSeq(userNotifications, LAMBDA n : ~n.acknowledged)
         ELSE userNotifications,
     total_count |-> Len(userNotifications),
     unacknowledged_count |->
         Len(SelectSeq(userNotifications, LAMBDA n : ~n.acknowledged))]

GetAlertNotifications ==
    /\ UNCHANGED monitorVars
    /\ UNCHANGED portfolioVars

\* ---- the monitor ----
\* a defect: start() schedules a timer whether or not one is running
StartUnguarded ==
    /\ isRunning' = TRUE
    /\ intervalId' = TRUE
    /\ timers' = timers + 1
    /\ UNCHANGED <<heap, activeAlerts, triggeredAlerts, userNotifications,
                   ticks, now, feed>>
    /\ UNCHANGED portfolioVars

\* PriceAlertMonitor.start
Start ==
    /\ IF isRunning
       THEN UNCHANGED <<isRunning, intervalId, timers>>
       ELSE isRunning' = TRUE /\ intervalId' = TRUE /\ timers' = timers + 1
    /\ UNCHANGED <<heap, activeAlerts, triggeredAlerts, userNotifications,
                   ticks, now, feed>>
    /\ UNCHANGED portfolioVars

\* a defect: the flag is cleared and the timer is left scheduled
StopKeepsTimer ==
    /\ isRunning' = FALSE
    /\ UNCHANGED <<heap, activeAlerts, triggeredAlerts, userNotifications,
                   intervalId, timers, ticks, now, feed>>
    /\ UNCHANGED portfolioVars

\* PriceAlertMonitor.stop
Stop ==
    /\ IF intervalId
       THEN timers' = timers - 1 /\ intervalId' = FALSE
       ELSE UNCHANGED <<intervalId, timers>>
    /\ isRunning' = FALSE
    /\ UNCHANGED <<heap, activeAlerts, triggeredAlerts, userNotifications,
                   ticks, now, feed>>
    /\ UNCHANGED portfolioVars

\* Date.now() moves on
AdvanceClock ==
    /\ now < MaxClock
    /\ now' = now + 1
    /\ UNCHANGED <<heap, activeAlerts, triggeredAlerts, userNotifications,
                   isRunning, intervalId, timers, ticks, feed>>
    /\ UNCHANGED portfolioVars

\* a defect: the triggered alerts are not filtered out
ActiveAlertsArrayUnfiltered == activeAlerts

\* Array.from(activeAlerts.values()).filter(alert => !alert.triggered)
ActiveAlertsArray == SelectSeq(activeAlerts, LAMBDA id : ~heap[id].triggered)

IdleSlots == {t \in DOMAIN ticks : ticks[t].pc = "idle"}

\* a defect: the invocation ends at the first alert it has dealt with
NextAlertAborts(tick) == IdleTick

\* the loop of checkAlerts moves to its next alert and awaits that fetch, or
\* the invocation ends
NextAlert(tick) ==
    IF Len(tick.queue) > 1
    THEN [IdleTick EXCEPT !.pc = "fetch", !.queue = Tail(tick.queue)]
    ELSE IdleTick

\* the timer callback: checkAlerts up to its first await
CheckAlerts ==
    /\ timers > 0
    /\ IdleSlots # {}
    /\ LET t == CHOOSE s \in IdleSlots : \A r \in IdleSlots : s <= r
       IN  ticks' = [ticks EXCEPT ![t] =
                        IF Len(ActiveAlertsArray) = 0
                        THEN IdleTick
                        ELSE [IdleTick EXCEPT !.pc = "fetch",
                                              !.queue = ActiveAlertsArray]]
    /\ UNCHANGED <<heap, activeAlerts, triggeredAlerts, userNotifications,
                   isRunning, intervalId, timers, now, feed>>
    /\ UNCHANGED portfolioVars

\* checkSingleAlert, the threshold tests
LowHit(alert, price) == Truthy(alert.lowThreshold) /\ price <= alert.lowThreshold

\* a defect: the comparison of the high test points the wrong way
HighHitFlipped(alert, price) ==
    Truthy(alert.highThreshold) /\ price <= alert.highThreshold

HighHit(alert, price) == Truthy(alert.highThreshold) /\ price >= alert.highThreshold

AlertTriggered(alert, price) == LowHit(alert, price) \/ HighHit(alert, price)

ThresholdTypeOf(alert, price) ==
    IF LowHit(alert, price) THEN "low"
    ELSE IF HighHit(alert, price) THEN "high" ELSE "low"

ThresholdValueOf(alert, price) ==
    IF LowHit(alert, price) THEN alert.lowThreshold
    ELSE IF HighHit(alert, price) THEN alert.highThreshold ELSE 0

\* a defect: the update rebuilds the alert as a fresh, untriggered one
CheckedRebuilt(alert, price) ==
    [alert EXCEPT !.currentPrice = price, !.lastChecked = now, !.triggered = FALSE]

\* checkSingleAlert's writes after a successful fetch
Checked(alert, price) ==
    [alert EXCEPT !.currentPrice = price, !.lastChecked = now]

\* triggerAlert's writes before the e-mail
Marked(alert) == [alert EXCEPT !.triggered = TRUE, !.triggeredAt = now]

\* triggerAlert after the e-mail: the record and the notification
TriggeredRecord(id, tick, emailSent) ==
    [id |-> <<id, tick.stamp>>, alertId |-> id, currentPrice |-> tick.price,
     thresholdType |-> tick.thresholdType, thresholdValue |-> tick.thresholdValue,
     acknowledged |-> FALSE, emailSent |-> emailSent]

Notification(id, tick, emailSent) ==
    [id |-> <<id, tick.stamp>>, acknowledged |-> FALSE,
     alertId |-> id, currentPrice |-> tick.price,
     thresholdType |-> tick.thresholdType, thresholdValue |-> tick.thresholdValue,
     emailSent |-> emailSent]

\* the fetch of checkSingleAlert settles: everything up to the next await
FetchSettles(t, outcome) ==
    /\ ticks[t].pc = "fetch"
    /\ LET tick == ticks[t]
           id == Head(tick.queue)
           alert == heap[id]
           price == outcome.usd
       IN  IF outcome.kind # "json" \/ ~Truthy(price)
           THEN /\ ticks' = [ticks EXCEPT ![t] = NextAlert(tick)]
                /\ UNCHANGED <<heap, activeAlerts, triggeredAlerts, userNotifications>>
           ELSE IF ~AlertTriggered(alert, price)
           THEN /\ heap' = [heap EXCEPT ![id] = Checked(alert, price)]
                /\ activeAlerts' = MapSet(activeAlerts, id)
                /\ ticks' = [ticks EXCEPT ![t] = NextAlert(tick)]
                /\ UNCHANGED <<triggeredAlerts, userNotifications>>
           ELSE LET fired == [tick EXCEPT
                                 !.price = price,
                                 !.thresholdType = ThresholdTypeOf(alert, price),
                                 !.thresholdValue = ThresholdValueOf(alert, price),
                                 !.stamp = now]
                IN  /\ heap' = [heap EXCEPT ![id] = Marked(Checked(alert, price))]
                    /\ activeAlerts' = MapSet(activeAlerts, id)
                    /\ IF alert.userEmail
                       THEN /\ ticks' = [ticks EXCEPT ![t] = [fired EXCEPT !.pc = "email"]]
                            /\ UNCHANGED <<triggeredAlerts, userNotifications>>
                       ELSE /\ triggeredAlerts' =
                                  RecordSet(triggeredAlerts, TriggeredRecord(id, fired, FALSE))
                            /\ userNotifications' =
                                  Append(userNotifications, Notification(id, fired, FALSE))
                            /\ ticks' = [ticks EXCEPT ![t] = NextAlert(tick)]
    /\ UNCHANGED <<isRunning, intervalId, timers, now>>
    /\ UNCHANGED portfolioVars

FetchReturns(t, outcome) == FetchSettles(t, outcome) /\ UNCHANGED feed

\* a defect: a failed e-mail undoes the transition and stores nothing
EmailReturnsRollsBack(t, emailSent) ==
    /\ ticks[t].pc = "email"
    /\ LET tick == ticks[t]
           id == Head(tick.queue)
       IN  IF emailSent
           THEN /\ triggeredAlerts' =
                      RecordSet(triggeredAlerts, TriggeredRecord(id, tick, emailSent))
                /\ userNotifications' =
                      Append(userNotifications, Notification(id, tick, emailSent))
                /\ ticks' = [ticks EXCEPT ![t] = NextAlert(tick)]
                /\ UNCHANGED heap
           ELSE /\ heap' = [heap EXCEPT ![id].triggered = FALSE,
                                        ![id].triggeredAt = Undefined]
                /\ ticks' = [ticks EXCEPT ![t] = NextAlert(tick)]
                /\ UNCHANGED <<triggeredAlerts, userNotifications>>
    /\ UNCHANGED <<activeAlerts, isRunning, intervalId, timers, now, feed>>
    /\ UNCHANGED portfolioVars

\* emailService.sendPriceAlert settles with true or false (it never throws)
EmailReturns(t, emailSent) ==
    /\ ticks[t].pc = "email"
    /\ LET tick == ticks[t]
           id == Head(tick.queue)
       IN  /\ triggeredAlerts' =
                  RecordSet(triggeredAlerts, TriggeredRecord(id, tick, emailSent))
           /\ userNotifications' =
                  Append(userNotifications, Notification(id, tick, emailSent))
           /\ ticks' = [ticks EXCEPT ![t] = NextAlert(tick)]
    /\ UNCHANGED <<heap, activeAlerts, isRunning, intervalId, timers, now, feed>>
    /\ UNCHANGED portfolioVars

AlertIds == 1..BatchAlerts

NotificationIds == AlertIds \X (0..MaxClock)

\* the requests and callbacks, with at most `cap` alerts ever created
Step(cap) ==
    \/ \E low \in SetupLows, high \in SetupHighs, email \in BOOLEAN,
          outcome \in SetupFetchOutcomes :
            Len(heap) < cap /\ SetupPriceAlert(low, high, email, outcome)
    \/ \E id \in AlertIds : RemovePriceAlert(id)
    \/ \E nid \in NotificationIds : AcknowledgeAlert(nid)
    \/ GetAlertNotifications
    \/ Start
    \/ Stop
    \/ AdvanceClock
    \/ CheckAlerts
    \/ \E t \in DOMAIN ticks, outcome \in FetchOutcomes : FetchReturns(t, outcome)
    \/ \E t \in DOMAIN ticks, emailSent \in BOOLEAN : EmailReturns(t, emailSent)

Next == Step(MaxAlerts)

Spec == Init /\ [][Next]_vars

\* the provider and the mailer answer every call in the end
TickSettles(t) ==
    \/ \E outcome \in FetchOutcomes : FetchReturns(t, outcome)
    \/ \E emailSent \in BOOLEAN : EmailReturns(t, emailSent)

FairSpec == Spec /\ \A t \in 1..MaxTicks : WF_vars(TickSettles(t))

\* the timer fires every 30 seconds for as long as it is scheduled, and the
\* provider and the mailer answer every call in the end
LiveSpec == FairSpec /\ WF_vars(CheckAlerts)

\* ---- several alerts in one tick ----
BatchInit == InitWith(BatchTicks)

BatchNext == Step(BatchAlerts)

BatchSpec == BatchInit /\ [][BatchNext]_vars

\* ---- one alert, low 145 and high 150, polled against 155, 148, 143 ----
ScenarioFeed == <<155, 148, 143>>

\* as setupPriceAlert leaves the stores for low 145, high 150 and no e-mail
ScenarioInit ==
    /\ heap = <<NewAlert(145, 150, FALSE, 155)>>
    /\ activeAlerts = <<1>>
    /\ triggeredAlerts = <<>>
    /\ userNotifications = <<>>
    /\ isRunning = TRUE
    /\ intervalId = TRUE
    /\ timers = 1
    /\ ticks = [t \in 1..MaxTicks |-> IdleTick]
    /\ now = 0
    /\ feed = ScenarioFeed
    /\ NoToolCall

\* the provider answers the next fetch with the next price of the feed
FeedReturns(t) ==
    /\ feed # <<>>
    /\ FetchSettles(t, [kind |-> "json", usd |-> Head(feed)])
    /\ feed' = Tail(feed)

ScenarioNext ==
    \/ \E id \in AlertIds : RemovePriceAlert(id)
    \/ \E nid \in NotificationIds : AcknowledgeAlert(nid)
    \/ GetAlertNotifications
    \/ Start
    \/ Stop
    \/ AdvanceClock
    \/ CheckAlerts
    \/ \E t \in DOMAIN ticks : FeedReturns(t)

ScenarioSpec == ScenarioInit /\ [][ScenarioNext]_vars

\* ======== the portfolio tools: holdings, prices, valuation ========
SupportedChains == {"ethereum", "solana", "polygon", "bsc"}

NativeSymbol(blockchain) ==
    CASE blockchain = "ethereum" -> "ETH"
      [] blockchain = "solana" -> "SOL"
      [] blockchain = "polygon" -> "MATIC"
      [] OTHER -> "BNB"

getMockEthereumHoldings ==
    << [symbol |-> "ETH", amount |-> 5, token_address |-> Null],
       [symbol |-> "USDC", amount |-> 2000, token_address |-> "0xA0b8"],
       [symbol |-> "UNI", amount |-> 100, token_address |-> "0x1f98"] >>

getMockSolanaHoldings ==
    << [symbol |-> "SOL", amount |-> 20, token_address |-> Null],
       [symbol |-> "USDC", amount |-> 1000, token_address |-> "EPjF"] >>

getMockPolygonHoldings ==
    << [symbol |-> "MATIC", amount |-> 200, token_address |-> Null],
       [symbol |-> "USDC", amount |-> 1000, token_address |-> "0x2791"] >>

getMockBscHoldings ==
    << [symbol |-> "BNB", amount |-> 10, token_address |-> Null],
       [symbol |-> "CAKE", amount |-> 50, token_address |-> "0x0E09"] >>

getMockHoldings(blockchain) ==
    CASE blockchain = "ethereum" -> getMockEthereumHoldings
      [] blockchain = "solana" -> getMockSolanaHoldings
      [] blockchain = "polygon" -> getMockPolygonHoldings
      [] OTHER -> getMockBscHoldings

\* a fetch of the holdings function throws, or the function throws itself:
\* the token list that is not ok (the Solana function only skips it)
ProviderFails(blockchain, answer) ==
    \/ answer.native.kind = "throws"
    \/ answer.tokens.kind = "throws"
    \/ blockchain # "solana" /\ answer.tokens.kind = "notOk"

\* the holdings the try block collects: the native coin, then the tokens,
\* each with a balance above 0
ProviderHoldings(blockchain, answer) ==
    (IF answer.native.kind = "json" /\ answer.native.balance > 0
     THEN <<[symbol |-> NativeSymbol(blockchain), amount |-> answer.native.balance,
             token_address |-> Null]>>
     ELSE <<>>)
    \o (IF answer.tokens.kind = "json"
        THEN SelectSeq(answer.tokens.data, LAMBDA token : token.amount > 0)
        ELSE <<>>)

\* getEthereumHoldings, getSolanaHoldings, getPolygonHoldings, getBscHoldings
GetHoldings(blockchain, key, answer) ==
    IF ~key \/ ProviderFails(blockchain, answer)
    THEN getMockHoldings(blockchain)
    ELSE ProviderHoldings(blockchain, answer)

HoldingsLog(blockchain, key, answer) ==
    IF ~key THEN {"MORALIS_API_KEY not found, using mock valued"}
    ELSE IF ProviderFails(blockchain, answer) THEN {"Error fetching holdings"}
    ELSE {}

\* token_address || symbol
PriceKey(token) == IF token.token_address # Null THEN token.token_address ELSE token.symbol

\* getMoralisTokenPrices finds an endpoint for the token
HasEndpoint(blockchain, token) ==
    IF blockchain = "solana"
    THEN token.symbol = "SOL" \/ token.token_address # Null
    ELSE token.token_address # Null \/ token.symbol \in {"ETH", "MATIC", "BNB"}

\* the next token from `from` on whose price is fetched, Len + 1 if none is
NextToken(blockchain, tokens, from) ==
    LET rest == {i \in from..Len(tokens) : HasEndpoint(blockchain, tokens[i])}
    IN  IF rest = {} THEN Len(tokens) + 1 ELSE CHOOSE i \in rest : \A j \in rest : i <= j

\* parseFloat(x || 0)
ParseFloatOr0(x) == IF Truthy(x) THEN x ELSE 0

\* priceData[key] = value
ObjectSet(object, key, value) ==
    [k \in DOMAIN object \cup {key} |-> IF k = key THEN value ELSE object[k]]

\* priceData after the fetch for `token` has settled
PriceRecorded(prices, token, outcome) ==
    IF outcome.kind = "json"
    THEN ObjectSet(prices, PriceKey(token),
                   [usd |-> ParseFloatOr0(outcome.usdPrice),
                    usd_24h_change |-> ParseFloatOr0(outcome.usdPrice24hrPercentChange)])
    ELSE prices

PriceLog(outcome) ==
    CASE outcome.kind = "throws" -> {"Error fetching price"}
      [] outcome.kind = "notOk" -> {"Failed to fetch price"}
      [] OTHER -> {}

\* a defect: a price of 0 counts as a price
HasPriceOrZero(prices, holding) ==
    /\ PriceKey(holding) \in DOMAIN prices
    /\ prices[PriceKey(holding)].usd >= 0

\* priceData[priceKey] && priceData[priceKey].usd > 0
HasPrice(prices, holding) ==
    /\ PriceKey(holding) \in DOMAIN prices
    /\ prices[PriceKey(holding)].usd > 0

\* the entry pushed to holdingsData; change_24h is in cents
HoldingData(prices, holding) ==
    LET price == prices[PriceKey(holding)].usd
        change24hPercent == prices[PriceKey(holding)].usd_24h_change
        value == holding.amount * price
    IN  [symbol |-> ToUpperCase(holding.symbol),
         amount |-> holding.amount,
         current_price |-> price,
         value |-> value,
         change_24h |-> value * change24hPercent,
         change_percentage_24h |-> change24hPercent,
         token_address |-> holding.token_address]

\* the loop over the holdings
RECURSIVE HoldingsData(_, _)
HoldingsData(prices, tokens) ==
    IF tokens = <<>> THEN <<>>
    ELSE (IF HasPrice(prices, Head(tokens))
          THEN <<HoldingData(prices, Head(tokens))>>
          ELSE <<>>)
         \o HoldingsData(prices, Tail(tokens))

Values(valued) == [i \in DOMAIN valued |-> valued[i].value]

\* what getPortfolioData returns after the loop; total_change_24h is in
\* cents, total_change_percentage_24h in hundredths of a percent
Portfolio(blockchain, prices, tokens) ==
    LET holdingsData == HoldingsData(prices, tokens)
        totalValue == SumSeq(Values(holdingsData))
        totalChange24h == SumSeq([i \in DOMAIN holdingsData |-> holdingsData[i].change_24h])
    IN  [blockchain |-> blockchain,
         total_value |-> totalValue,
         total_change_24h |-> totalChange24h,
         total_change_percentage_24h |->
             IF totalValue > 0 THEN RoundDiv(100 * totalChange24h, totalValue) ELSE 0,
         holdings |-> holdingsData]

\* what getPortfolioData returns when the wallet has no holdings
EmptyPortfolio(blockchain) ==
    [blockchain |-> blockchain, total_value |-> 0, total_change_24h |-> 0,
     total_change_percentage_24h |-> 0, holdings |-> <<>>]

ValuationLog(prices, tokens) ==
    IF \E i \in DOMAIN tokens : ~HasPrice(prices, tokens[i])
    THEN {"No price valued found"}
    ELSE {}

\* ======== the portfolio tools: risk analysis ========
\* Math.sqrt(365), in thousandths
Sqrt365 == 19105

\* getZScore, in thousandths
getZScore(confidenceLevel) ==
    CASE confidenceLevel = 90 -> 1282
      [] confidenceLevel = 95 -> 1645
      [] confidenceLevel = 99 -> 2326
      [] OTHER -> 1645

\* total_value * portfolioVolatility: the sum of value * |change|
Exposure(valued) ==
    SumSeq([i \in DOMAIN valued |-> valued[i].value * Abs(valued[i].change_percentage_24h)])

calculateRiskMetrics(portfolioData, confidenceLevel) ==
    LET exposure == Exposure(portfolioData.holdings)
    IN  [portfolio_volatility |->
             IF portfolioData.holdings = <<>> THEN 0
             ELSE MulDivRound(exposure, Sqrt365, 10 * portfolioData.total_value),
         value_at_risk_1d |->
             IF portfolioData.holdings = <<>> THEN 0
             ELSE IF portfolioData.total_value = 0 THEN NaN
             ELSE RoundDiv(exposure * getZScore(confidenceLevel), 1000)]

Squares(valued) == [i \in DOMAIN valued |-> valued[i].value * valued[i].value]

\* a defect: the weights are summed, not their squares
HerfindahlOfWeights(valued) ==
    [num |-> SumSeq(Values(valued)) * SumSeq(Values(valued)),
     den |-> SumSeq(Values(valued)) * SumSeq(Values(valued))]

\* herfindahlIndex before it is rounded, as a fraction: the sum of the
\* squared weights value / totalValue
Herfindahl(valued) ==
    [num |-> SumSeq(Squares(valued)),
     den |-> SumSeq(Values(valued)) * SumSeq(Values(valued))]

calculateDiversificationMetrics(valued) ==
    LET numberOfAssets == Len(valued)
        herfindahlIndex == Herfindahl(valued)
    IN  [number_of_assets |-> numberOfAssets,
         herfindahl_index |->
             IF valued = <<>> THEN 0
             ELSE DecimalRound(herfindahlIndex.num, herfindahlIndex.den, 4),
         effective_assets |->
             IF valued = <<>> THEN Infinity
             ELSE DecimalRound(herfindahlIndex.den, herfindahlIndex.num, 2),
         diversification_ratio |->
             IF valued = <<>> THEN Infinity
             ELSE DecimalRound(herfindahlIndex.den,
                               numberOfAssets * herfindahlIndex.num, 3)]

\* a defect: the holdings are sorted by ascending value
RECURSIVE InsertAscending(_, _)
InsertAscending(sorted, holding) ==
    IF sorted = <<>> THEN <<holding>>
    ELSE IF Head(sorted).value <= holding.value
         THEN <<Head(sorted)>> \o InsertAscending(Tail(sorted), holding)
         ELSE <<holding>> \o sorted

\* [...holdings].sort((a, b) => b.value - a.value): a stable sort
RECURSIVE Insert(_, _)
Insert(sorted, holding) ==
    IF sorted = <<>> THEN <<holding>>
    ELSE IF Head(sorted).value >= holding.value
         THEN <<Head(sorted)>> \o Insert(Tail(sorted), holding)
         ELSE <<holding>> \o sorted

RECURSIVE SortByValue(_)
SortByValue(valued) ==
    IF valued = <<>> THEN <<>>
    ELSE Insert(SortByValue(SubSeq(valued, 1, Len(valued) - 1)), valued[Len(valued)])

\* Array.prototype.slice(0, k)
Slice(s, k) == SubSeq(s, 1, Min(k, Len(s)))

calculateConcentrationRisk(valued, totalValue) ==
    LET sortedValues == Values(SortByValue(valued))
        top == SumSeq(Slice(sortedValues, 1))
        top3 == SumSeq(Slice(sortedValues, 3))
        top5 == SumSeq(Slice(sortedValues, 5))
    IN  [top_holding_percentage |-> Percentage(top, totalValue),
         top_3_holdings_percentage |-> Percentage(top3, totalValue),
         top_5_holdings_percentage |-> Percentage(top5, totalValue),
         concentration_risk_level |->
             IF ExceedsPercent(top, totalValue, 50) THEN "high"
             ELSE IF ExceedsPercent(top, totalValue, 25) THEN "medium"
             ELSE "low"]

assetCategories ==
    << [category |-> "Stablecoins",
        symbols |-> {"USDC", "USDT", "DAI", "BUSD", "TUSD", "FRAX"},
        riskLevel |-> "low", expectedVolatility |-> 2],
       [category |-> "Blue Chip",
        symbols |-> {"BTC", "ETH", "BNB"},
        riskLevel |-> "medium", expectedVolatility |-> 60],
       [category |-> "Large Cap Altcoins",
        symbols |-> {"ADA", "DOT", "LINK", "UNI", "MATIC", "SOL"},
        riskLevel |-> "medium", expectedVolatility |-> 80],
       [category |-> "DeFi Tokens",
        symbols |-> {"AAVE", "COMP", "MKR", "SNX", "YFI", "SUSHI", "CAKE"},
        riskLevel |-> "high", expectedVolatility |-> 100],
       [category |-> "Meme/Small Cap",
        symbols |-> {},
        riskLevel |-> "high", expectedVolatility |-> 120] >>

\* a defect: a symbol no category lists is booked under the first category
CategoryOfUnlistedFirst(holding) ==
    LET named == {i \in DOMAIN assetCategories :
                     /\ assetCategories[i].category # "Meme/Small Cap"
                     /\ ToUpperCase(holding.symbol) \in assetCategories[i].symbols}
    IN  IF named = {}
        THEN 1
        ELSE CHOOSE i \in named : \A j \in named : i <= j

\* the category the forEach body books the holding under: the first one,
\* Meme/Small Cap aside, that lists the upper-cased symbol, else Meme/Small Cap
CategoryOf(holding) ==
    LET named == {i \in DOMAIN assetCategories :
                     /\ assetCategories[i].category # "Meme/Small Cap"
                     /\ ToUpperCase(holding.symbol) \in assetCategories[i].symbols}
    IN  IF named = {}
        THEN CHOOSE i \in DOMAIN assetCategories :
                 assetCategories[i].category = "Meme/Small Cap"
        ELSE CHOOSE i \in named : \A j \in named : i <= j

RiskLevelOf(holding) == assetCategories[CategoryOf(holding)].riskLevel

\* the value booked under a category and under a risk level
CategoryValue(valued, i) ==
    SumSeq([j \in DOMAIN valued |-> IF CategoryOf(valued[j]) = i THEN valued[j].value ELSE 0])

RiskLevelValue(valued, level) ==
    SumSeq([j \in DOMAIN valued |-> IF RiskLevelOf(valued[j]) = level THEN valued[j].value ELSE 0])

RiskLevelAssets(valued, level) ==
    LET booked == SelectSeq(valued, LAMBDA holding : RiskLevelOf(holding) = level)
    IN  [j \in DOMAIN booked |-> ToUpperCase(booked[j].symbol)]

analyzeAssetAllocation(valued, totalValue) ==
    LET byCategory ==
            [i \in DOMAIN assetCategories |->
                [category |-> assetCategories[i].category,
                 percentage |-> Percentage(CategoryValue(valued, i), totalValue),
                 volatility |-> assetCategories[i].expectedVolatility]]
        levels == <<"low", "medium", "high">>
    IN  [by_risk_level |->
             [l \in DOMAIN levels |->
                 [risk_level |-> levels[l],
                  percentage |-> Percentage(RiskLevelValue(valued, levels[l]), totalValue),
                  assets |-> RiskLevelAssets(valued, levels[l])]],
         by_category |-> SelectSeq(byCategory, LAMBDA c : Gt(c.percentage, 0))]

\* a defect: the closing entry is appended whatever the rules gave
generateRiskRecommendationsAlwaysCloses(portfolioData, riskMetrics, concentrationRisk) ==
    (IF concentrationRisk.concentration_risk_level = "high"
     THEN <<[type |-> "rebalance", priority |-> "high"]>> ELSE <<>>)
    \o (IF Gt(riskMetrics.portfolio_volatility, 10000)
        THEN <<[type |-> "reduce_risk", priority |-> "high"]>> ELSE <<>>)
    \o (IF Len(portfolioData.holdings) < 5
        THEN <<[type |-> "diversify", priority |-> "medium"]>> ELSE <<>>)
    \o (IF Gt(riskMetrics.value_at_risk_1d, 10 * portfolioData.total_value)
        THEN <<[type |-> "hedge", priority |-> "high"]>> ELSE <<>>)
    \o <<[type |-> "diversify", priority |-> "low"]>>

\* value_at_risk_1d is in cents: total_value * 0.1 is 10 * total_value cents
generateRiskRecommendations(portfolioData, riskMetrics, concentrationRisk) ==
    LET recommendations ==
            (IF concentrationRisk.concentration_risk_level = "high"
             THEN <<[type |-> "rebalance", priority |-> "high"]>> ELSE <<>>)
            \o (IF Gt(riskMetrics.portfolio_volatility, 10000)
                THEN <<[type |-> "reduce_risk", priority |-> "high"]>> ELSE <<>>)
            \o (IF Len(portfolioData.holdings) < 5
                THEN <<[type |-> "diversify", priority |-> "medium"]>> ELSE <<>>)
            \o (IF Gt(riskMetrics.value_at_risk_1d, 10 * portfolioData.total_value)
                THEN <<[type |-> "hedge", priority |-> "high"]>> ELSE <<>>)
    IN  IF Len(recommendations) = 0
        THEN <<[type |-> "diversify", priority |-> "low"]>>
        ELSE recommendations

\* a defect: the value at risk gives no points
TierPointsWithoutValueAtRisk(riskMetrics, concentrationRisk, diversificationMetrics) ==
    (IF Gt(riskMetrics.portfolio_volatility, 15000) THEN 3
     ELSE IF Gt(riskMetrics.portfolio_volatility, 10000) THEN 2
     ELSE IF Gt(riskMetrics.portfolio_volatility, 5000) THEN 1
     ELSE 0)
    + (IF Gt(concentrationRisk.top_holding_percentage, 7000) THEN 3
       ELSE IF Gt(concentrationRisk.top_holding_percentage, 5000) THEN 2
       ELSE IF Gt(concentrationRisk.top_holding_percentage, 3000) THEN 1
       ELSE 0)
    + (IF Lt(diversificationMetrics.diversification_ratio, 300) THEN 2
       ELSE IF Lt(diversificationMetrics.diversification_ratio, 500) THEN 1
       ELSE 0)

\* the points of the four components; (value_at_risk_1d / 10000) * 100
\* exceeds 20 above 2000 USD and 10 above 1000 USD
TierPoints(riskMetrics, concentrationRisk, diversificationMetrics) ==
    (IF Gt(riskMetrics.portfolio_volatility, 15000) THEN 3
     ELSE IF Gt(riskMetrics.portfolio_volatility, 10000) THEN 2
     ELSE IF Gt(riskMetrics.portfolio_volatility, 5000) THEN 1
     ELSE 0)
    + (IF Gt(concentrationRisk.top_holding_percentage, 7000) THEN 3
       ELSE IF Gt(concentrationRisk.top_holding_percentage, 5000) THEN 2
       ELSE IF Gt(concentrationRisk.top_holding_percentage, 3000) THEN 1
       ELSE 0)
    + (IF Lt(diversificationMetrics.diversification_ratio, 300) THEN 2
       ELSE IF Lt(diversificationMetrics.diversification_ratio, 500) THEN 1
       ELSE 0)
    + (IF Gt(riskMetrics.value_at_risk_1d, 0)
       THEN (IF riskMetrics.value_at_risk_1d > 200000 THEN 2
             ELSE IF riskMetrics.value_at_risk_1d > 100000 THEN 1
             ELSE 0)
       ELSE 0)

\* a defect: the sum is not clamped
calculateOverallRiskScoreUnclamped(riskMetrics, concentrationRisk, diversificationMetrics) ==
    1 + TierPoints(riskMetrics, concentrationRisk, diversificationMetrics)

calculateOverallRiskScore(riskMetrics, concentrationRisk, diversificationMetrics) ==
    Min(10, 1 + TierPoints(riskMetrics, concentrationRisk, diversificationMetrics))

createEmptyRiskAnalysis(blockchain) ==
    [blockchain |-> blockchain,
     portfolio_value |-> 0,
     risk_metrics |-> [portfolio_volatility |-> 0, value_at_risk_1d |-> 0],
     diversification_metrics |->
         [number_of_assets |-> 0, herfindahl_index |-> 0, effective_assets |-> 0,
          diversification_ratio |-> 0],
     concentration_risk |->
         [top_holding_percentage |-> 0, top_3_holdings_percentage |-> 0,
          top_5_holdings_percentage |-> 0, concentration_risk_level |-> "low"],
     asset_allocation |-> [by_risk_level |-> <<>>, by_category |-> <<>>],
     risk_recommendations |-> <<[type |-> "diversify", priority |-> "low"]>>,
     overall_risk_score |-> 1]

\* the report execute builds from a portfolio; portfolio_value is in cents
RiskAnalysis(portfolioData, confidence_level) ==
    LET riskMetrics == calculateRiskMetrics(portfolioData, confidence_level)
        diversificationMetrics == calculateDiversificationMetrics(portfolioData.holdings)
        concentrationRisk ==
            calculateConcentrationRisk(portfolioData.holdings, portfolioData.total_value)
    IN  [blockchain |-> portfolioData.blockchain,
         portfolio_value |-> 100 * portfolioData.total_value,
         risk_metrics |-> riskMetrics,
         diversification_metrics |-> diversificationMetrics,
         concentration_risk |-> concentrationRisk,
         asset_allocation |->
             analyzeAssetAllocation(portfolioData.holdings, portfolioData.total_value),
         risk_recommendations |->
             generateRiskRecommendations(portfolioData, riskMetrics, concentrationRisk),
         overall_risk_score |->
             calculateOverallRiskScore(riskMetrics, concentrationRisk,
                                       diversificationMetrics)]

\* a defect: the empty portfolio is analysed like any other
AnalyzeWithoutEmptyCase(portfolioData, confidence_level) ==
    RiskAnalysis(portfolioData, confidence_level)

\* analyzePortfolioRisk.execute once getPortfolioData has returned
AnalyzePortfolioRisk(portfolioData, confidence_level) ==
    IF Len(portfolioData.holdings) = 0
    THEN createEmptyRiskAnalysis(portfolioData.blockchain)
    ELSE RiskAnalysis(portfolioData, confidence_level)

\* ======== the portfolio tools: a call ========
\* a defect: an unknown chain is served like a known one
SupportedChainOrDefault(blockchain) == TRUE

\* the if-else chain of getPortfolioData finds a holdings function
SupportedChain(blockchain) == blockchain \in SupportedChains

\* the error the tool throws: getPortfolioData's catch wraps the message,
\* and analyzePortfolioRisk's catch wraps it again
Thrown(tool, message) ==
    IF tool = "analyzePortfolioRisk"
    THEN <<"Failed to analyze portfolio risk", "Failed to fetch portfolio", message>>
    ELSE <<"Failed to fetch portfolio", message>>

ErrorLog(tool) ==
    IF tool = "analyzePortfolioRisk"
    THEN {"Error calculating portfolio", "Error analyzing portfolio risk"}
    ELSE {"Error calculating portfolio"}

\* getPortfolioData returns portfolioData, and the tool returns: reply holds
\* what getPortfolioData returned, which is what calculatePortfolio returns,
\* and the report of analyzePortfolioRisk
Respond(portfolioData, log) ==
    /\ stage' = "done"
    /\ console' = log
    /\ reply' = [error |-> <<>>,
                 portfolioData |-> <<portfolioData>>,
                 report |-> IF context.tool = "analyzePortfolioRisk"
                            THEN <<AnalyzePortfolioRisk(portfolioData,
                                                        context.confidence_level)>>
                            ELSE <<>>]

\* execute up to the first await: getPortfolioData picks the holdings
\* function of the chain and calls it, or throws
GetPortfolioData ==
    /\ stage = "start"
    /\ IF SupportedChain(context.blockchain)
       THEN /\ stage' = "holdings"
            /\ calls' = calls \cup {"getHoldings"}
            /\ UNCHANGED <<console, reply>>
       ELSE /\ stage' = "failed"
            /\ reply' = [NoReply EXCEPT
                            !.error = Thrown(context.tool, "Blockchain not supported yet")]
            /\ console' = console \cup ErrorLog(context.tool)
            /\ UNCHANGED calls
    /\ UNCHANGED <<context, MORALIS_API_KEY, holdings, priceData, cursor>>
    /\ UNCHANGED monitorVars

\* the holdings function returns: no holdings end the call; without an API
\* key getMoralisTokenPrices returns no prices at once; else the first price
\* is fetched
HoldingsReturn(answer) ==
    /\ stage = "holdings"
    /\ LET blockchain == context.blockchain
           found == GetHoldings(blockchain, MORALIS_API_KEY, answer)
           log == console \cup HoldingsLog(blockchain, MORALIS_API_KEY, answer)
           first == NextToken(blockchain, found, 1)
       IN  /\ holdings' = found
           /\ IF Len(found) = 0
              THEN /\ Respond(EmptyPortfolio(blockchain), log)
                   /\ UNCHANGED <<priceData, cursor, calls>>
              ELSE /\ calls' = calls \cup {"getMoralisTokenPrices"}
                   /\ IF ~MORALIS_API_KEY \/ first > Len(found)
                      THEN /\ Respond(Portfolio(blockchain, priceData, found),
                                      log \cup {"Fetching prices"}
                                          \cup (IF MORALIS_API_KEY THEN {}
                                                ELSE {"MORALIS_API_KEY not found, using fallback prices"})
                                          \cup ValuationLog(priceData, found))
                           /\ UNCHANGED <<priceData, cursor>>
                      ELSE /\ stage' = "prices"
                           /\ cursor' = first
                           /\ console' = log \cup {"Fetching prices"}
                           /\ UNCHANGED <<priceData, reply>>
    /\ UNCHANGED <<context, MORALIS_API_KEY>>
    /\ UNCHANGED monitorVars

\* the fetch of a price settles: the next price is fetched, or the holdings
\* are valued and the tool returns
PriceReturns(outcome) ==
    /\ stage = "prices"
    /\ LET blockchain == context.blockchain
           prices == PriceRecorded(priceData, holdings[cursor], outcome)
           next == NextToken(blockchain, holdings, cursor + 1)
           log == console \cup PriceLog(outcome)
       IN  /\ priceData' = prices
           /\ cursor' = next
           /\ IF next > Len(holdings)
              THEN Respond(Portfolio(blockchain, prices, holdings),
                           log \cup ValuationLog(prices, holdings))
              ELSE /\ console' = log
                   /\ UNCHANGED <<stage, reply>>
    /\ UNCHANGED <<context, MORALIS_API_KEY, holdings, calls>>
    /\ UNCHANGED monitorVars

\* a tool is called, with or without an API key in the environment
PortfolioInit ==
    /\ MonitorInit(0)
    /\ context \in Contexts
    /\ MORALIS_API_KEY \in BOOLEAN
    /\ stage = "start"
    /\ holdings = <<>>
    /\ priceData = <<>>
    /\ cursor = 0
    /\ calls = {}
    /\ console = {}
    /\ reply = NoReply

PortfolioNext ==
    \/ GetPortfolioData
    \/ \E answer \in HoldingsAnswers(context.blockchain) : HoldingsReturn(answer)
    \/ \E outcome \in PriceOutcomes : PriceReturns(outcome)

PortfolioSpec == PortfolioInit /\ [][PortfolioNext]_vars

\* ---- properties ----
AllIdle == \A t \in DOMAIN ticks : ticks[t].pc = "idle"

NotificationsOf(id) ==
    {i \in DOMAIN userNotifications : userNotifications[i].alertId = id}

RecordsOf(id) ==
    {i \in DOMAIN triggeredAlerts : triggeredAlerts[i].alertId = id}

\* C1: over any interleaving of ticks and requests, an alert produces at most
\* one triggered record and at most one notification.
C1_AtMostOncePerAlert ==
    \A id \in DOMAIN heap :
        /\ Cardinality(RecordsOf(id)) <= 1
        /\ Cardinality(NotificationsOf(id)) <= 1

\* C2: TRIGGERED is terminal: no step takes an alert's triggered flag from
\* true back to false.
C2_TriggeredIsTerminal ==
    [][\A id \in DOMAIN heap : heap[id].triggered => heap'[id].triggered]_vars

\* a triggered alert that is still in the registry is being polled by a tick
\* that took it before it triggered
C2_Witness ==
    \E id \in DOMAIN heap, t \in DOMAIN ticks :
        /\ heap[id].triggered
        /\ Has(id)
        /\ ticks[t].pc = "fetch"
        /\ Head(ticks[t].queue) = id

Priced(outcome) == outcome.kind = "json" /\ Truthy(outcome.usd)

\* the transition condition as the claim states it: a threshold is set when it
\* was supplied
C4_LowHolds(alert, p) == alert.lowThreshold # Undefined /\ p <= alert.lowThreshold

C4_HighHolds(alert, p) == alert.highThreshold # Undefined /\ p >= alert.highThreshold

\* C4: a successful fetch of p for a non-triggered alert triggers it iff
\* p <= low (low set) or p >= high (high set); low is tested first and decides
\* the recorded threshold type and value.
C4_TransitionCondition ==
    [][\A t \in DOMAIN ticks, outcome \in FetchOutcomes :
          (/\ Priced(outcome)
           /\ ticks[t].pc = "fetch"
           /\ ~heap[Head(ticks[t].queue)].triggered
           /\ FetchReturns(t, outcome))
          => LET id == Head(ticks[t].queue)
                 alert == heap[id]
                 p == outcome.usd
             IN  /\ heap'[id].triggered <=> (C4_LowHolds(alert, p) \/ C4_HighHolds(alert, p))
                 /\ (heap'[id].triggered /\ ~alert.userEmail) =>
                       LET n == userNotifications'[Len(userNotifications')]
                       IN  IF C4_LowHolds(alert, p)
                           THEN n.thresholdType = "low"
                                /\ n.thresholdValue = alert.lowThreshold
                           ELSE n.thresholdType = "high"
                                /\ n.thresholdValue = alert.highThreshold]_vars

\* C5: a failed e-mail does not roll the transition back: the alert stays
\* triggered with triggeredAt set, and its record and its notification are
\* stored with emailSent false.
C5_EmailFailureKeepsTransition ==
    [][\A t \in DOMAIN ticks :
          (ticks[t].pc = "email" /\ EmailReturns(t, FALSE))
          => LET id == Head(ticks[t].queue)
             IN  /\ heap'[id].triggered
                 /\ heap'[id].triggeredAt # Undefined
                 /\ \E i \in DOMAIN triggeredAlerts' :
                        /\ triggeredAlerts'[i].alertId = id
                        /\ triggeredAlerts'[i].id = <<id, ticks[t].stamp>>
                        /\ ~triggeredAlerts'[i].emailSent
                 /\ Len(userNotifications') = Len(userNotifications) + 1
                 /\ userNotifications'[Len(userNotifications')].alertId = id
                 /\ ~userNotifications'[Len(userNotifications')].emailSent]_vars

\* the e-mail of a triggered alert failed and its record is stored
C5_Witness ==
    \E i \in DOMAIN triggeredAlerts :
        /\ heap[triggeredAlerts[i].alertId].userEmail
        /\ heap[triggeredAlerts[i].alertId].triggered
        /\ ~triggeredAlerts[i].emailSent
        /\ \E j \in DOMAIN userNotifications :
              /\ userNotifications[j].id = triggeredAlerts[i].id
              /\ ~userNotifications[j].emailSent

\* a fetch that failed: thrown, not OK, or no usable price in the body
Failed(outcome) == ~Priced(outcome)

\* C6: a failed fetch leaves the alert, the registry, the records and the
\* notifications as they were, and the tick goes on to the alerts it has left.
C6_FailedFetchSkips ==
    [][\A t \in DOMAIN ticks, outcome \in FetchOutcomes :
          (Failed(outcome) /\ ticks[t].pc = "fetch" /\ FetchReturns(t, outcome))
          => /\ UNCHANGED data
             /\ Len(ticks[t].queue) > 1 =>
                   /\ ticks'[t].pc = "fetch"
                   /\ ticks'[t].queue = Tail(ticks[t].queue)]_vars

\* the fetch for alert 1 failed (it is active and was never checked) and the
\* same tick is now fetching for alert 2
C6_Witness ==
    /\ Len(heap) >= 2
    /\ Has(1)
    /\ ~heap[1].triggered
    /\ heap[1].lastChecked = Undefined
    /\ Cardinality(NotificationsOf(1)) = 0
    /\ \E t \in DOMAIN ticks : ticks[t].pc = "fetch" /\ ticks[t].queue = <<2>>

ValidationInputs == {Undefined, 0, 100, 145, 150, 200}

\* C7: setup fails, with no alert id, whenever neither threshold is given or
\* low >= high, zero included, and then changes nothing.
C7_SetupValidation ==
    [][\A low \in ValidationInputs, high \in ValidationInputs, email \in BOOLEAN,
          outcome \in SetupFetchOutcomes :
          (/\ \/ low = Undefined /\ high = Undefined
              \/ low # Undefined /\ high # Undefined /\ low >= high
           /\ SetupPriceAlert(low, high, email, outcome))
          => /\ ~SetupResult(low, high, outcome).success
             /\ SetupResult(low, high, outcome).alert_id = 0
             /\ UNCHANGED data]_vars

\* C8: acknowledging an existing notification id reports success and leaves
\* the notification acknowledged, and so does every further call, which
\* changes nothing more.
C8_AcknowledgeIdempotent ==
    \A nid \in NotificationIds :
        FindNotification(userNotifications, nid) # 0 =>
            LET i == FindNotification(userNotifications, nid)
                once == Acknowledged(userNotifications, nid)
                twice == Acknowledged(once, nid)
            IN  /\ AcknowledgeResult(userNotifications, nid).success
                /\ once[i].acknowledged
                /\ AcknowledgeResult(once, nid).success
                /\ twice = once
                /\ FindNotification(once, nid) = i

\* a notification was acknowledged
C8_Witness ==
    \E i \in DOMAIN userNotifications :
        /\ userNotifications[i].acknowledged
        /\ FindNotification(userNotifications, userNotifications[i].id) = i

\* a request handler's step
ToolStep ==
    \/ \E low \in SetupLows, high \in SetupHighs, email \in BOOLEAN,
          outcome \in SetupFetchOutcomes : SetupPriceAlert(low, high, email, outcome)
    \/ \E id \in AlertIds : RemovePriceAlert(id)
    \/ \E nid \in NotificationIds : AcknowledgeAlert(nid)

\* C9, the part about single steps: stop() touches no tick, alert, record or
\* notification; while the monitor is stopped no tick starts; and once the
\* ticks that were in flight have finished only request handlers change the
\* alerts, records and notifications.
C9_StoppedStep ==
    /\ (isRunning /\ ~isRunning') => UNCHANGED <<data, ticks>>
    /\ (\E t \in DOMAIN ticks : ticks[t].pc = "idle" /\ ticks'[t].pc # "idle")
          => isRunning
    /\ (~isRunning /\ ~isRunning' /\ AllIdle) =>
          /\ ticks' = ticks
          /\ UNCHANGED data \/ ToolStep

\* C9: stopping cancels the recurring task cleanly: no tick starts after
\* stop(), a tick in progress finishes, and after that the monitor changes
\* nothing until start().
C9_StopIsClean ==
    /\ [][C9_StoppedStep]_vars
    /\ \A t \in 1..MaxTicks : (ticks[t].pc # "idle") ~> (ticks[t].pc = "idle")

\* the monitor was stopped while a tick was in progress
C9_Witness == ~isRunning /\ ~intervalId /\ ~AllIdle

\* C10: a triggered alert stays in the registry until it is removed, and no
\* step changes any of its fields.
C10_TriggeredIsReadOnly ==
    [][\A id \in DOMAIN heap :
          heap[id].triggered =>
              /\ heap'[id] = heap[id]
              /\ (Has(id) /\ ~RemovePriceAlert(id)) => id \in Range(activeAlerts')]_vars

\* an entry of a log with its acknowledged flag masked
Unacknowledged(e) == [e EXCEPT !.acknowledged = FALSE]

\* C11: the triggered-record log and the notification log are append-only:
\* no step removes an entry, and every entry already stored keeps its place
\* and all its fields except the acknowledged flag.
C11_LogsAppendOnly ==
    [][/\ Len(triggeredAlerts') >= Len(triggeredAlerts)
       /\ Len(userNotifications') >= Len(userNotifications)
       /\ \A i \in DOMAIN triggeredAlerts :
             Unacknowledged(triggeredAlerts'[i]) = Unacknowledged(triggeredAlerts[i])
       /\ \A i \in DOMAIN userNotifications :
             Unacknowledged(userNotifications'[i]) = Unacknowledged(userNotifications[i])]_vars

\* ---- properties of the portfolio tools ----
\* the tool has returned a value
Returned == stage = "done" /\ reply.portfolioData # <<>>

\* analyzePortfolioRisk has returned the report of a portfolio with holdings
Analysed ==
    /\ Returned
    /\ reply.report # <<>>
    /\ reply.portfolioData[1].holdings # <<>>

\* C12: overall_risk_score of every report analyzePortfolioRisk returns is in
\* [1, 10]: 1 plus at most 3 + 3 + 2 + 2 points, clamped to 10.
C12_ScoreInRange ==
    \A i \in DOMAIN reply.report :
        LET report == reply.report[i]
            points == TierPoints(report.risk_metrics, report.concentration_risk,
                                 report.diversification_metrics)
        IN  /\ report.overall_risk_score \in 1..10
            /\ points \in 0..10
            /\ Analysed => report.overall_risk_score = Min(10, 1 + points)

\* all four components give their most, 11 in all, and the score is 10
C12_Witness ==
    /\ Analysed
    /\ TierPoints(reply.report[1].risk_metrics, reply.report[1].concentration_risk,
                  reply.report[1].diversification_metrics) = 10
    /\ reply.report[1].overall_risk_score = 10

\* no holding of the wallet has a price above 0 (or there is no holding)
C13_NothingPriced ==
    \A i \in DOMAIN holdings :
        \/ PriceKey(holdings[i]) \notin DOMAIN priceData
        \/ priceData[PriceKey(holdings[i])].usd <= 0

\* C13: when no holding resolves to a price, the call returns without an
\* error: the portfolio has total_value 0 and no holdings, the report has
\* overall_risk_score 1 and exactly one recommendation, of priority low, and
\* no number of either is the result of a division by zero.
C13_EmptyPortfolio ==
    (stage = "done" /\ C13_NothingPriced) =>
        /\ reply.error = <<>>
        /\ Len(reply.portfolioData) = 1
        /\ reply.portfolioData[1].total_value = 0
        /\ reply.portfolioData[1].holdings = <<>>
        /\ reply.portfolioData[1].total_change_percentage_24h = 0
        /\ context.tool = "analyzePortfolioRisk" =>
              /\ Len(reply.report) = 1
              /\ reply.report[1].overall_risk_score = 1
              /\ Len(reply.report[1].risk_recommendations) = 1
              /\ reply.report[1].risk_recommendations[1].priority = "low"
              /\ reply.report[1].concentration_risk.top_holding_percentage = 0
              /\ reply.report[1].diversification_metrics.diversification_ratio = 0
              /\ reply.report[1].diversification_metrics.effective_assets = 0

\* the wallet has holdings, every price was fetched, and none is above 0
C13_Witness ==
    /\ stage = "done"
    /\ context.tool = "analyzePortfolioRisk"
    /\ MORALIS_API_KEY
    /\ Len(holdings) >= 2
    /\ C13_NothingPriced
    /\ reply.report # <<>>

\* C14: for a portfolio with holdings, top1 <= top3 <= top5 <= 100, top1 is
\* the share of the largest holding, and with fewer than 3 (5) holdings
\* top3 (top5) is 100.
C14_TopSharesOrdered ==
    Analysed =>
        LET portfolio == reply.portfolioData[1]
            risk == reply.report[1].concentration_risk
        IN  /\ risk.top_holding_percentage <= risk.top_3_holdings_percentage
            /\ risk.top_3_holdings_percentage <= risk.top_5_holdings_percentage
            /\ risk.top_5_holdings_percentage <= 10000
            /\ \A i \in DOMAIN portfolio.holdings :
                  Percentage(portfolio.holdings[i].value, portfolio.total_value)
                      <= risk.top_holding_percentage
            /\ \E i \in DOMAIN portfolio.holdings :
                  Percentage(portfolio.holdings[i].value, portfolio.total_value)
                      = risk.top_holding_percentage
            /\ Len(portfolio.holdings) < 3 => risk.top_3_holdings_percentage = 10000
            /\ Len(portfolio.holdings) < 5 => risk.top_5_holdings_percentage = 10000

\* six holdings: the three shares differ and the top five are not all
C14_Witness ==
    /\ Analysed
    /\ Len(reply.portfolioData[1].holdings) = 6
    /\ reply.report[1].concentration_risk.top_holding_percentage
           < reply.report[1].concentration_risk.top_3_holdings_percentage
    /\ reply.report[1].concentration_risk.top_3_holdings_percentage
           < reply.report[1].concentration_risk.top_5_holdings_percentage
    /\ reply.report[1].concentration_risk.top_5_holdings_percentage < 10000

\* all holdings have the same value
C15_AllEqual(valued) == \A i, j \in DOMAIN valued : valued[i].value = valued[j].value

\* C15: for n >= 1 holdings of positive value the Herfindahl index H, the
\* sum of the squared weights, is in [1/n, 1], is 1 iff n = 1 and is 1/n iff
\* all values are equal; so (1/H)/n is in (0, 1], and so are both numbers
\* as the report rounds them.
C15_HerfindahlBounds ==
    Analysed =>
        LET valued == reply.portfolioData[1].holdings
            n == Len(valued)
            H == Herfindahl(valued)
            metrics == reply.report[1].diversification_metrics
        IN  /\ \A i \in DOMAIN valued : valued[i].value > 0
            /\ H.den > 0
            /\ H.den <= n * H.num
            /\ H.num <= H.den
            /\ H.num = H.den <=> n = 1
            /\ n * H.num = H.den <=> C15_AllEqual(valued)
            /\ metrics.number_of_assets = n
            /\ metrics.herfindahl_index = DecimalRound(H.num, H.den, 4)
            /\ metrics.herfindahl_index \in 1..10000
            /\ metrics.diversification_ratio \in 1..1000

\* several holdings of one value: H is 1/n; and several of different values
C15_Witness ==
    /\ Analysed
    /\ Len(reply.portfolioData[1].holdings) >= 3
    /\ C15_AllEqual(reply.portfolioData[1].holdings)
    /\ reply.report[1].diversification_metrics.diversification_ratio = 1000

\* the holdings of the wallet that have a price entry with usd > 0, in order
C16_PricedHoldings ==
    SelectSeq(holdings, LAMBDA holding :
        /\ PriceKey(holding) \in DOMAIN priceData
        /\ priceData[PriceKey(holding)].usd > 0)

\* C16: in every portfolio returned, total_value is the sum of the values of
\* the returned holdings, each value is amount * unit price, and the
\* returned holdings are the holdings of the wallet with a price entry above
\* 0, in the wallet's order; the others are dropped.
C16_ValuesAddUp ==
    Returned =>
        LET portfolio == reply.portfolioData[1]
            priced == C16_PricedHoldings
        IN  /\ portfolio.total_value = SumSeq(Values(portfolio.holdings))
            /\ Len(portfolio.holdings) = Len(priced)
            /\ \A i \in DOMAIN portfolio.holdings :
                  /\ portfolio.holdings[i].value =
                         portfolio.holdings[i].amount * portfolio.holdings[i].current_price
                  /\ portfolio.holdings[i].current_price > 0
                  /\ i \in DOMAIN priced =>
                        /\ portfolio.holdings[i].amount = priced[i].amount
                        /\ portfolio.holdings[i].token_address = priced[i].token_address
                        /\ portfolio.holdings[i].current_price =
                               priceData[PriceKey(priced[i])].usd

\* calculatePortfolio returns some holdings of the wallet and drops others:
\* one with a price of 0 and one whose fetch failed
C16_Witness ==
    /\ Returned
    /\ context.tool = "calculatePortfolio"
    /\ Len(reply.portfolioData[1].holdings) >= 2
    /\ Len(reply.portfolioData[1].holdings) + 2 <= Len(holdings)
    /\ \E i \in DOMAIN holdings :
          /\ PriceKey(holdings[i]) \in DOMAIN priceData
          /\ priceData[PriceKey(holdings[i])].usd = 0
    /\ \E i \in DOMAIN holdings : PriceKey(holdings[i]) \notin DOMAIN priceData

\* where an entry stands in the fixed order of the rules
C17_Rank(recommendation) ==
    CASE recommendation = [type |-> "rebalance", priority |-> "high"] -> 1
      [] recommendation = [type |-> "reduce_risk", priority |-> "high"] -> 2
      [] recommendation = [type |-> "diversify", priority |-> "medium"] -> 3
      [] recommendation = [type |-> "hedge", priority |-> "high"] -> 4
      [] recommendation = [type |-> "diversify", priority |-> "low"] -> 5
      [] OTHER -> 0

C17_Has(recommendations, rank) ==
    \E i \in DOMAIN recommendations : C17_Rank(recommendations[i]) = rank

\* C17: the recommendations of a portfolio with holdings are never empty;
\* rebalance/high is there iff the concentration level is high,
\* reduce_risk/high iff the volatility is above 100, diversify/medium iff
\* there are fewer than 5 assets, hedge/high iff the 1-day value at risk is
\* above 10% of the portfolio value; diversify/low is there iff none of the
\* four is, and is then alone; and the entries stand in this order.
C17_RecommendationRules ==
    Analysed =>
        LET report == reply.report[1]
            list == report.risk_recommendations
        IN  /\ Len(list) >= 1
            /\ \A i \in DOMAIN list : C17_Rank(list[i]) \in 1..5
            /\ \A i, j \in DOMAIN list : i < j => C17_Rank(list[i]) < C17_Rank(list[j])
            /\ C17_Has(list, 1) <=>
                  report.concentration_risk.concentration_risk_level = "high"
            /\ C17_Has(list, 2) <=> report.risk_metrics.portfolio_volatility > 10000
            /\ C17_Has(list, 3) <=> report.diversification_metrics.number_of_assets < 5
            /\ C17_Has(list, 4) <=>
                  10 * report.risk_metrics.value_at_risk_1d > report.portfolio_value
            /\ C17_Has(list, 5) <=> \A rank \in 1..4 : ~C17_Has(list, rank)
            /\ C17_Has(list, 5) => Len(list) = 1

\* all four rules fire, in a list that priority would order otherwise
C17_Witness ==
    /\ Analysed
    /\ Len(reply.report[1].risk_recommendations) = 4
    /\ reply.report[1].risk_recommendations[3].priority = "medium"
    /\ reply.report[1].risk_recommendations[4].priority = "high"

\* C18: for a chain other than ethereum, solana, polygon and bsc the tools
\* fail with an error: no collaborator is called, and no portfolio and no
\* report is returned.
C18_UnsupportedChainFails ==
    context.blockchain \notin {"ethereum", "solana", "polygon", "bsc"} =>
        /\ calls = {}
        /\ holdings = <<>>
        /\ reply.portfolioData = <<>>
        /\ reply.report = <<>>
        /\ stage \in {"idle", "start", "failed"}
        /\ stage = "failed" => reply.error # <<>>
        /\ stage # "failed" => reply.error = <<>>

\* analyzePortfolioRisk has failed for an unsupported chain
C18_Witness ==
    /\ context.tool = "analyzePortfolioRisk"
    /\ context.blockchain = "avalanche"
    /\ stage = "failed"
    /\ reply.error # <<>>

\* C19: when a fetch of the holdings provider fails, the call fails with an
\* error and returns neither a portfolio nor a report.
C19_ProviderFailureFails ==
    (stage = "done" /\ "Error fetching holdings" \in console) =>
        /\ reply.error # <<>>
        /\ reply.portfolioData = <<>>
        /\ reply.report = <<>>

\* the categories, Meme/Small Cap aside, that list the symbol
C20_Listing(symbol) ==
    {i \in 1..4 : symbol \in assetCategories[i].symbols}

\* the first category that lists the symbol, else Meme/Small Cap
C20_Category(symbol) ==
    IF C20_Listing(symbol) = {} THEN "Meme/Small Cap"
    ELSE assetCategories[CHOOSE i \in C20_Listing(symbol) :
                            \A j \in C20_Listing(symbol) : i <= j].category

C20_Level(symbol) ==
    IF C20_Listing(symbol) = {} THEN "high"
    ELSE assetCategories[CHOOSE i \in C20_Listing(symbol) :
                            \A j \in C20_Listing(symbol) : i <= j].riskLevel

C20_ValueWhere(valued, Test(_)) ==
    SumSeq([i \in DOMAIN valued |-> IF Test(valued[i]) THEN valued[i].value ELSE 0])

\* C20: every holding is booked under exactly one risk level and one
\* category, those of the first of Stablecoins, Blue Chip, Large Cap
\* Altcoins and DeFi Tokens that lists its upper-cased symbol, else
\* Meme/Small Cap and high; the values booked under low, medium and high add
\* up to the total value; and by_category holds, in the categories' order,
\* just the categories whose percentage is above 0.
C20_AllocationPartition ==
    Analysed =>
        LET portfolio == reply.portfolioData[1]
            valued == portfolio.holdings
            allocation == reply.report[1].asset_allocation
            levels == <<"low", "medium", "high">>
            share(c) == Percentage(C20_ValueWhere(valued,
                            LAMBDA h : C20_Category(h.symbol) = c), portfolio.total_value)
            shown == SelectSeq([i \in 1..5 |-> assetCategories[i].category],
                               LAMBDA c : share(c) > 0)
        IN  /\ Len(allocation.by_risk_level) = 3
            /\ \A l \in 1..3 :
                  LET booked == SelectSeq(valued, LAMBDA h : C20_Level(h.symbol) = levels[l])
                  IN  /\ allocation.by_risk_level[l].risk_level = levels[l]
                      /\ allocation.by_risk_level[l].assets =
                             [i \in DOMAIN booked |-> booked[i].symbol]
                      /\ allocation.by_risk_level[l].percentage =
                             Percentage(SumSeq(Values(booked)), portfolio.total_value)
            /\ RiskLevelValue(valued, "low") + RiskLevelValue(valued, "medium")
                   + RiskLevelValue(valued, "high") = portfolio.total_value
            /\ Len(allocation.by_category) = Len(shown)
            /\ \A i \in DOMAIN allocation.by_category :
                  /\ allocation.by_category[i].percentage > 0
                  /\ i \in DOMAIN shown =>
                        /\ allocation.by_category[i].category = shown[i]
                        /\ allocation.by_category[i].percentage = share(shown[i])

\* holdings of all three risk levels, one of them listed by no category and
\* one spelled in lower case by the provider, and a category with no holding
C20_Witness ==
    /\ Analysed
    /\ \A l \in 1..3 : reply.report[1].asset_allocation.by_risk_level[l].assets # <<>>
    /\ \E i \in DOMAIN reply.portfolioData[1].holdings :
          reply.portfolioData[1].holdings[i].symbol = "PEPE"
    /\ \E i \in DOMAIN reply.portfolioData[1].holdings :
          reply.portfolioData[1].holdings[i].symbol = "DAI"
    /\ Len(reply.report[1].asset_allocation.by_category) \in 1..4

\* the tiers as the contract states them, on the numbers of a report:
\* volatility and top1 in hundredths of a percent, diversification_ratio in
\* thousandths, value_at_risk_1d in cents
C21_VolatilityPoints(report) ==
    LET volatility == report.risk_metrics.portfolio_volatility
    IN  IF volatility > 15000 THEN 3
        ELSE IF volatility > 10000 THEN 2
        ELSE IF volatility > 5000 THEN 1 ELSE 0

C21_ConcentrationPoints(report) ==
    LET top1 == report.concentration_risk.top_holding_percentage
    IN  IF top1 > 7000 THEN 3
        ELSE IF top1 > 5000 THEN 2
        ELSE IF top1 > 3000 THEN 1 ELSE 0

C21_DiversificationPoints(report) ==
    LET ratio == report.diversification_metrics.diversification_ratio
    IN  IF ratio < 300 THEN 2 ELSE IF ratio < 500 THEN 1 ELSE 0

\* VaR_1d as a percentage of 10,000 USD (1,000,000 cents), in whole cents:
\* above 20 % is above 200,000 cents, above 10 % is above 100,000 cents
C21_ValueAtRiskPoints(report) ==
    LET var1d == report.risk_metrics.value_at_risk_1d
    IN  IF 100 * var1d > 20 * 1000000 THEN 2
        ELSE IF 100 * var1d > 10 * 1000000 THEN 1 ELSE 0

\* the same wallet with twice the amount of every token
C21_Doubled(portfolio) ==
    [portfolio EXCEPT
        !.total_value = 2 * @,
        !.total_change_24h = 2 * @,
        !.holdings = [i \in DOMAIN @ |->
                         [@[i] EXCEPT !.amount = 2 * @, !.value = 2 * @,
                                      !.change_24h = 2 * @]]]

\* C21: the score of the report of a portfolio with holdings is
\* min(10, 1 + v + c + d + r), v being 3/2/1/0 for volatility above
\* 150/100/50, c 3/2/1/0 for top1 above 70/50/30, d 2/1/0 for a
\* diversification ratio below 0.3/0.5 and r 2/1/0 for VaR_1d above 20 %/10 %
\* of 10,000 USD, whatever the portfolio is worth.
C21_ScoreFormula ==
    Analysed =>
        LET report == reply.report[1]
        IN  report.overall_risk_score =
                Min(10, 1 + C21_VolatilityPoints(report)
                          + C21_ConcentrationPoints(report)
                          + C21_DiversificationPoints(report)
                          + C21_ValueAtRiskPoints(report))

\* a portfolio whose score changes when every amount is doubled, although
\* its volatility, its shares and its diversification ratio stay the same
C21_Witness ==
    /\ Analysed
    /\ reply.portfolioData[1].total_value <= 2500
    /\ LET report == reply.report[1]
           twice == RiskAnalysis(C21_Doubled(reply.portfolioData[1]),
                                 context.confidence_level)
       IN  /\ twice.risk_metrics.portfolio_volatility
                  = report.risk_metrics.portfolio_volatility
           /\ twice.concentration_risk = report.concentration_risk
           /\ twice.diversification_metrics = report.diversification_metrics
           /\ C21_ValueAtRiskPoints(twice) > C21_ValueAtRiskPoints(report)
           /\ twice.overall_risk_score > report.overall_risk_score

\* ---- further properties of the alert monitor ----
\* C22: a tick that starts takes the alerts of the registry that are not
\* triggered at that moment, in registry order, and then only works through
\* that list from its head, one fetch for each alert: an alert that was
\* TRIGGERED when the tick started is not fetched or checked by it.
C22_TickPollsActiveAlerts ==
    [][\A t \in DOMAIN ticks :
          /\ (ticks[t].pc = "idle" /\ ticks'[t].pc # "idle") =>
                /\ ticks'[t].pc = "fetch"
                /\ ticks'[t].queue = SelectSeq(activeAlerts, LAMBDA id : ~heap[id].triggered)
          /\ (ticks[t].pc = "fetch" /\ ticks'[t] # ticks[t]) =>
                \/ ticks'[t].pc = "email" /\ ticks'[t].queue = ticks[t].queue
                \/ ticks'[t].pc = "fetch" /\ ticks'[t].queue = Tail(ticks[t].queue)
                \/ ticks'[t].pc = "idle" /\ Len(ticks[t].queue) = 1
          /\ (ticks[t].pc = "email" /\ ticks'[t] # ticks[t]) =>
                \/ ticks'[t].pc = "fetch" /\ ticks'[t].queue = Tail(ticks[t].queue)
                \/ ticks'[t].pc = "idle" /\ Len(ticks[t].queue) = 1]_vars

\* alert 2 was triggered by an earlier tick and is still in the registry
\* after alert 1; the tick in progress fetches for alert 1 alone
C22_Witness ==
    /\ activeAlerts = <<1, 2>>
    /\ ~heap[1].triggered
    /\ heap[2].triggered
    /\ \E t \in DOMAIN ticks : ticks[t].pc = "fetch" /\ ticks[t].queue = <<1>>

\* the tick calls the e-mail service in this step
C23_EmailInvoked(t) == ticks[t].pc # "email" /\ ticks'[t].pc = "email"

\* C23: the e-mail service is called for an alert only in the step that
\* takes the alert from ACTIVE to TRIGGERED, and only when the alert has an
\* e-mail address; TRIGGERED being terminal, that is at most one e-mail for
\* an alert with an address and none for an alert without.
C23_EmailOnlyWithTransition ==
    [][\A t \in DOMAIN ticks :
          C23_EmailInvoked(t) =>
              LET id == Head(ticks'[t].queue)
              IN  /\ heap[id].userEmail
                  /\ ~heap[id].triggered
                  /\ heap'[id].triggered]_vars

\* the alert was created and is no longer in the registry: it was removed
\* (ids are never used again)
C24_Removed(id) == id \in DOMAIN heap /\ ~Has(id)

\* C24: removing an alert of the registry reports success and takes it out;
\* a removed alert never comes back, not even when a tick that had taken it
\* finishes later, and no record or notification is stored for it any more;
\* removing an id that is not in the registry reports failure and changes
\* nothing.
C24_RemoveIsFinal ==
    [][/\ \A id \in AlertIds :
             RemovePriceAlert(id) =>
                 IF Has(id)
                 THEN RemoveResult(id).success /\ id \notin Range(activeAlerts')
                 ELSE ~RemoveResult(id).success /\ UNCHANGED data
       /\ \A id \in DOMAIN heap :
             C24_Removed(id) =>
                 /\ id \notin Range(activeAlerts')
                 /\ Len(triggeredAlerts') = Len(triggeredAlerts)
                        \/ triggeredAlerts'[Len(triggeredAlerts')].alertId # id
                 /\ Len(userNotifications') = Len(userNotifications)
                        \/ userNotifications'[Len(userNotifications')].alertId # id]_vars

\* C25: at most one timer is scheduled at any time, isRunning is true
\* exactly when one is (and the monitor holds its handle), start() on a
\* running monitor schedules nothing, and stop() leaves no timer.
C25_SingleTimer ==
    /\ [](timers \in {0, 1})
    /\ [](isRunning <=> timers = 1)
    /\ [](intervalId <=> timers = 1)
    /\ [][(isRunning /\ Start) => UNCHANGED <<isRunning, intervalId, timers>>]_vars
    /\ [][Stop => (timers' = 0 /\ ~isRunning')]_vars

\* stop() has cancelled the timer that was scheduled when the module was
\* loaded, and no tick is under way
C25_Witness ==
    /\ ~isRunning
    /\ timers = 0
    /\ AllIdle
    /\ heap # <<>>

\* C26: in every state an alert of the registry is marked triggered exactly
\* when a triggered record and a notification of that alert exist, also
\* while its e-mail is being sent.
C26_TriggeredIffRecorded ==
    \A id \in Range(activeAlerts) :
        heap[id].triggered <=> (RecordsOf(id) # {} /\ NotificationsOf(id) # {})

\* C27: every alert of the registry has a threshold the monitor tests, and
\* an alert that was given both thresholds has low < high.
C27_StoredThresholds ==
    \A id \in Range(activeAlerts) :
        /\ Truthy(heap[id].lowThreshold) \/ Truthy(heap[id].highThreshold)
        /\ (heap[id].lowThreshold # Undefined /\ heap[id].highThreshold # Undefined)
              => heap[id].lowThreshold < heap[id].highThreshold

C29_FetchBreaches(id) ==
    \A t \in DOMAIN ticks :
        (/\ ticks[t].pc = "fetch"
         /\ Head(ticks[t].queue) = id
         /\ ticks'[t] # ticks[t])
        => \E outcome \in FetchOutcomes :
              /\ Priced(outcome)
              /\ C4_LowHolds(heap[id], outcome.usd) \/ C4_HighHolds(heap[id], outcome.usd)
              /\ FetchReturns(t, outcome)

C29_Recorded(id) ==
    /\ id \in DOMAIN heap
    /\ heap[id].triggered
    /\ RecordsOf(id) # {}
    /\ NotificationsOf(id) # {}

\* C29: when the monitor is never stopped, the alert stays in the registry
\* from some moment on, and from some moment on every fetch for it delivers
\* a price that satisfies its transition condition, the alert is eventually
\* TRIGGERED with its record and its notification stored.
C29_EventuallyTriggered ==
    \A id \in 1..MaxAlerts :
        ([]isRunning /\ <>[]Has(id) /\ <>[][C29_FetchBreaches(id)]_vars)
            => <>C29_Recorded(id)

\* C30: acknowledge_alert changes nothing but the acknowledged flag of the
\* notification with the id it was given: the alerts, the registry, every
\* triggered record (its acknowledged flag too) and every other notification
\* stay as they are; for an id of no notification it reports failure and
\* changes nothing; and get_alert_notifications changes nothing.
C30_AcknowledgeFrame ==
    [][/\ \A nid \in NotificationIds :
             AcknowledgeAlert(nid) =>
                 /\ UNCHANGED <<heap, activeAlerts, triggeredAlerts>>
                 /\ Len(userNotifications') = Len(userNotifications)
                 /\ \A i \in DOMAIN userNotifications :
                       /\ Unacknowledged(userNotifications'[i])
                              = Unacknowledged(userNotifications[i])
                       /\ userNotifications[i].id # nid
                              => userNotifications'[i] = userNotifications[i]
                 /\ AcknowledgeResult(userNotifications, nid).success
                        <=> \E i \in DOMAIN userNotifications : userNotifications[i].id = nid
                 /\ ~AcknowledgeResult(userNotifications, nid).success => UNCHANGED data
       /\ GetAlertNotifications => UNCHANGED vars]_vars

\* one of two notifications was acknowledged: the other is not, and no
\* triggered record is
C30_Witness ==
    \E i, j \in DOMAIN userNotifications :
        /\ userNotifications[i].acknowledged
        /\ ~userNotifications[j].acknowledged
        /\ userNotifications[i].id # userNotifications[j].id
        /\ \A k \in DOMAIN triggeredAlerts : ~triggeredAlerts[k].acknowledged
        /\ \E k \in DOMAIN triggeredAlerts :
              triggeredAlerts[k].id = userNotifications[i].id

====
